---- MODULE Spec2Model ----
(***************************************************************************)
(* A model of ds.py, the terminal chat client: the configuration check at  *)
(* import time, the exit handlers (atexit, SIGINT/SIGTERM, sys.excepthook),*)
(* ConfigManager.save_data with its _saved flag, and main() with its flag  *)
(* mapping, transcript load and the streamed / non-streamed turn.          *)
(*                                                                         *)
(* Strings are sequences of one-character strings, so that concatenation,  *)
(* slicing and lower() are computed and not assumed.  The interpreter is   *)
(* a stack of frames: main (or the hook, or the atexit callback) at the    *)
(* bottom, and one frame per signal handler that interrupted it.  Python   *)
(* runs a signal handler between two bytecodes of whatever is executing,   *)
(* so a signal may be delivered between any two steps of the model.        *)
(***************************************************************************)
EXTENDS Integers, Sequences, FiniteSets, TLC

VARIABLES
    settings,           \* settings.py on disk
    latest,             \* latest.json on disk
    archive,            \* the file written by save_messages
    start,              \* the two files as they were when the process started
    args,               \* the parsed command line
    config,             \* manager.config
    messages,           \* manager.messages
    saved,              \* manager._saved
    registered,         \* lines 95-98 have run
    stack,              \* the frames of the interpreter, innermost last
    status,             \* the exit status, once it is decided
    exited,             \* the process has terminated
    console,            \* everything printed, in order
    shown,              \* the mapping printed by show_status
    message,            \* main: the line read by prompt()
    reasoning_content,  \* main: the reasoning text of the current stream
    content,            \* main: the answer text of the current stream
    response,           \* main: the content of the non-streamed response
    request,            \* the messages argument of the last request
    turns,              \* number of user messages appended by this process
    chunks,             \* main: the chunks read from the current stream
    nchunks,            \* number of chunks read by this process
    preturn,            \* manager.messages before the last user message
    calls,              \* number of direct calls of save_data
    sigs,               \* number of signals delivered
    writes,             \* number of times latest.json was opened for writing
    reads,              \* number of times latest.json was opened for reading
    cfgWrites,          \* number of times settings.py was written
    trigger             \* what first ended main, and where main was

vars == <<settings, latest, archive, start, args, config, messages, saved,
          registered, stack, status, exited, console, shown, message,
          reasoning_content, content, response, request, turns, chunks,
          nchunks, preturn, calls, sigs, writes, reads, cfgWrites, trigger>>

(***************************************************************************)
(* Bounds of the model.                                                    *)
(***************************************************************************)
MaxTurns == 1
MaxChunks == 2
MaxSignals == 1
MaxStream == 3
MaxCalls == 3
MaxMessages == 3

(***************************************************************************)
(* Strings.                                                                *)
(***************************************************************************)
EmptyStr == << >>

Truthy(s) == s # EmptyStr

LowerChar(c) ==
    CASE c = "Q" -> "q"
      [] c = "U" -> "u"
      [] c = "I" -> "i"
      [] c = "T" -> "t"
      [] c = "E" -> "e"
      [] c = "X" -> "x"
      [] OTHER -> c

Lower_AsTyped(s) == s

Lower(s) == [i \in 1..Len(s) |-> LowerChar(s[i])]

Prefix(s, n) == SubSeq(s, 1, IF Len(s) < n THEN Len(s) ELSE n)

QuitWords == { <<"e", "x", "i", "t">>, <<"q", "u", "i", "t">>, <<"q">> }

(***************************************************************************)
(* Dictionaries are functions from keys to values.                         *)
(***************************************************************************)
Put(d, k, v) == [x \in (DOMAIN d) \cup {k} |-> IF x = k THEN v ELSE d[x]]

Get(d, k, default) == IF k \in DOMAIN d THEN d[k] ELSE default

required_keys_NoMemory == {"api_key", "base_url", "model", "temperature"}

required_keys == {"api_key", "base_url", "model", "temperature", "memory"}

(***************************************************************************)
(* The files.  settings.py binds DATABASE to a literal mapping, or cannot  *)
(* be loaded; latest.json holds a JSON array of messages, or is absent, or *)
(* is not JSON.                                                            *)
(***************************************************************************)
NoDb == [api_key |-> "", base_url |-> "", model |-> "", temperature |-> 0]

Database(mem) ==
    [api_key |-> "x", base_url |-> "https://api.deepseek.com",
     model |-> "deepseek-chat", temperature |-> 10, memory |-> mem]

Without(d, k) == [x \in (DOMAIN d) \ {k} |-> d[x]]

SettingsFiles ==
    { [exists |-> FALSE, parses |-> FALSE, db |-> NoDb],
      [exists |-> TRUE, parses |-> FALSE, db |-> NoDb],
      [exists |-> TRUE, parses |-> TRUE, db |-> NoDb] }
    \cup { [exists |-> TRUE, parses |-> TRUE, db |-> Database(mem)] :
             mem \in BOOLEAN }
    \cup { [exists |-> TRUE, parses |-> TRUE,
            db |-> Without(Database(TRUE), k)] : k \in required_keys }

Msg(r, c) == [role |-> r, content |-> c]

NoFile == [exists |-> FALSE, valid |-> FALSE, data |-> << >>]

Truncated == [exists |-> TRUE, valid |-> FALSE, data |-> << >>]

JsonDump(msgs) == [exists |-> TRUE, valid |-> TRUE, data |-> msgs]

JsonLoad(file) == file.data

Stored == << Msg("user", <<"h", "i">>), Msg("assistant", <<"a">>) >>

LatestFiles == { NoFile, Truncated, JsonDump(<< >>), JsonDump(Stored) }

(***************************************************************************)
(* A stored conversation that opens with a question holding a "/": it is   *)
(* tried with -n, where line 70 makes a file name of it.                   *)
(***************************************************************************)
Slashed == << Msg("user", <<"1", "/", "2">>), Msg("assistant", <<"a">>) >>

(***************************************************************************)
(* What save_data leaves in latest.json when a turn is interrupted after   *)
(* line 151: a transcript that ends with a user message.  It is tried in   *)
(* the runs that load it (-m) and take the short turn of -d.               *)
(***************************************************************************)
Dangling == << Msg("user", <<"h", "i">>) >>

LatestFilesFor(a) ==
    LatestFiles
    \cup (IF a.new THEN { JsonDump(Slashed) } ELSE { })
    \cup (IF a.memory /\ a.no_stream /\ ~a.reasoner
          THEN { JsonDump(Dangling) } ELSE { })

(***************************************************************************)
(* The command line: argparse gives every store_true flag the value FALSE  *)
(* when it is absent, -k the value None (here "") and -t the value 0.7     *)
(* (temperatures are in tenths).                                           *)
(***************************************************************************)
DefaultTemperature == 7

Flags(n, k, b, r, m, s, t, d) ==
    [new |-> n, key |-> k, beta |-> b, reasoner |-> r, memory |-> m,
     status |-> s, temperature |-> t, no_stream |-> d]

(***************************************************************************)
(* The command lines tried.  -r, -m and -d act in the loop and are tried   *)
(* in every combination; -n, -k with -t, and -s with -b act before the     *)
(* loop and are each tried with and without -m.                            *)
(***************************************************************************)
ArgSets ==
    { Flags(FALSE, "", FALSE, r, m, FALSE, DefaultTemperature, d) :
        r \in BOOLEAN, m \in BOOLEAN, d \in BOOLEAN }
    \cup { Flags(TRUE, "", FALSE, FALSE, m, FALSE, DefaultTemperature, FALSE) :
             m \in BOOLEAN }
    \cup { Flags(FALSE, "mykey", FALSE, FALSE, m, FALSE, t, FALSE) :
             m \in BOOLEAN, t \in {DefaultTemperature, 12} }
    \cup { Flags(FALSE, "", b, FALSE, m, TRUE, DefaultTemperature, FALSE) :
             b \in BOOLEAN, m \in BOOLEAN }

(***************************************************************************)
(* What the collaborators may deliver.                                     *)
(***************************************************************************)
UserInputs == { <<"h", "i">>, <<"Q">>, <<"e", "X", "i", "T">> }

Chunk(r, c) == [reasoning_content |-> r, content |-> c]

Chunks ==
    { Chunk(<<"r">>, EmptyStr), Chunk(EmptyStr, <<"a">>),
      Chunk(EmptyStr, <<"b">>), Chunk(<<"r">>, <<"b">>),
      Chunk(EmptyStr, EmptyStr) }

LifeChunks == { Chunk(<<"r">>, EmptyStr), Chunk(EmptyStr, <<"a">>) }

Answers == { <<"a">>, <<"a", "b">> }

Signals == {2, 15}

(***************************************************************************)
(* Frames.                                                                 *)
(***************************************************************************)
Frame(f, p) == [fn |-> f, pc |-> p]

Running == Len(stack) > 0

Top == stack[Len(stack)]

Bottom == stack[1]

At(f, p) == Running /\ Top = Frame(f, p)

Goto(p) == [stack EXCEPT ![Len(stack)].pc = p]

NoTrigger == [kind |-> "none", pc |-> "none"]

Fire(kind) ==
    IF trigger = NoTrigger
    THEN [kind |-> kind, pc |-> Bottom.pc]
    ELSE trigger

Init ==
    /\ settings \in SettingsFiles
    /\ args \in ArgSets
    /\ latest \in LatestFilesFor(args)
    /\ archive = [written |-> FALSE, name |-> EmptyStr, data |-> << >>]
    /\ start = [settings |-> settings, latest |-> latest]
    /\ config = NoDb
    /\ messages = << >>
    /\ saved = FALSE
    /\ registered = FALSE
    /\ stack = << Frame("main", "construct") >>
    /\ status = -1
    /\ exited = FALSE
    /\ console = << >>
    /\ shown = NoDb
    /\ message = EmptyStr
    /\ reasoning_content = EmptyStr
    /\ content = EmptyStr
    /\ response = EmptyStr
    /\ request = << >>
    /\ turns = 0
    /\ chunks = << >>
    /\ nchunks = 0
    /\ preturn = << >>
    /\ calls = 0
    /\ sigs = 0
    /\ writes = 0
    /\ reads = 0
    /\ cfgWrites = 0
    /\ trigger = NoTrigger

(***************************************************************************)
(* How a frame at the bottom of the stack ends.  An exception that leaves  *)
(* main is given to sys.excepthook (line 98); a return from main, or a     *)
(* SystemExit that leaves main or the hook, makes the interpreter run the  *)
(* atexit callback (line 95), each of which starts by calling save_data.   *)
(***************************************************************************)
Raise == << Frame("hook", "sd_check") >>

Finalize == << Frame("atexit", "sd_check") >>

(***************************************************************************)
(* Line 84, ConfigManager() : __init__ and _validate_config.  The three    *)
(* sys.exit calls carry a message, so the status is 1; no exit handler is  *)
(* registered yet.                                                         *)
(***************************************************************************)
Construct ==
    /\ At("main", "construct")
    /\ IF settings.exists /\ settings.parses
          /\ required_keys \subseteq DOMAIN settings.db
       THEN /\ config' = Put(settings.db, "stream", TRUE)
            /\ stack' = Goto("register")
            /\ UNCHANGED <<settings, latest, archive, start, args, messages,
                           saved, registered, status, exited, console, shown,
                           message, reasoning_content, content, response,
                           request, turns, chunks, nchunks, preturn, calls,
                           sigs, writes, reads, cfgWrites, trigger>>
       ELSE /\ stack' = << >>
            /\ exited' = TRUE
            /\ status' = 1
            /\ console' = Append(console, "config error")
            /\ trigger' = Fire("config")
            /\ UNCHANGED <<settings, latest, archive, start, args, config,
                           messages, saved, registered, shown, message,
                           reasoning_content, content, response, request,
                           turns, chunks, nchunks, preturn, calls, sigs,
                           writes, reads, cfgWrites>>

(***************************************************************************)
(* Lines 95-98: the atexit callback, the two signal handlers, the hook.    *)
(***************************************************************************)
Register ==
    /\ At("main", "register")
    /\ registered' = TRUE
    /\ stack' = Goto("parse")
    /\ UNCHANGED <<settings, latest, archive, start, args, config, messages,
                   saved, status, exited, console, shown, message,
                   reasoning_content, content, response, request, turns,
                   chunks, nchunks, preturn, calls, sigs, writes, reads,
                   cfgWrites, trigger>>

(***************************************************************************)
(* Lines 112-117: the flags override the configuration of this run.  A     *)
(* store_true flag is never None, so line 116 always assigns.              *)
(***************************************************************************)
IsNotNone(flag) == flag \in BOOLEAN

ApplyFlags(cfg, a) ==
    LET c1 == IF a.beta
              THEN Put(cfg, "base_url", "https://beta.api.deepseek.com/beta")
              ELSE cfg
        c2 == IF a.reasoner THEN Put(c1, "model", "deepseek-reasoner") ELSE c1
        c3 == IF IsNotNone(a.memory) THEN Put(c2, "memory", a.memory) ELSE c2
    IN  IF a.no_stream THEN Put(c3, "stream", FALSE) ELSE c3

Parse ==
    /\ At("main", "parse")
    /\ config' = ApplyFlags(config, args)
    /\ stack' = Goto("load")
    /\ UNCHANGED <<settings, latest, archive, start, args, messages, saved,
                   registered, status, exited, console, shown, message,
                   reasoning_content, content, response, request, turns,
                   chunks, nchunks, preturn, calls, sigs, writes, reads,
                   cfgWrites, trigger>>

(***************************************************************************)
(* Lines 119-121: the transcript is read when memory is on.  open() raises *)
(* when the file is absent, json.load when it does not hold JSON.          *)
(***************************************************************************)
Load ==
    /\ At("main", "load")
    /\ IF Get(config, "memory", TRUE)
       THEN /\ reads' = IF latest.exists THEN reads + 1 ELSE reads
            /\ IF latest.exists /\ latest.valid
               THEN /\ messages' = JsonLoad(latest)
                    /\ stack' = Goto("key")
                    /\ UNCHANGED trigger
               ELSE /\ stack' = Raise
                    /\ trigger' = Fire("error")
                    /\ UNCHANGED messages
            /\ UNCHANGED <<settings, latest, archive, start, args, config,
                           saved, registered, status, exited, console, shown,
                           message, reasoning_content, content, response,
                           request, turns, chunks, nchunks, preturn, calls,
                           sigs, writes, cfgWrites>>
       ELSE /\ stack' = Goto("key")
            /\ UNCHANGED <<settings, latest, archive, start, args, config,
                           messages, saved, registered, status, exited,
                           console, shown, message, reasoning_content,
                           content, response, request, turns, chunks, nchunks,
                           preturn, calls, sigs, writes, reads, cfgWrites,
                           trigger>>

(***************************************************************************)
(* Lines 124-135: -k writes a new settings.py and returns.                 *)
(***************************************************************************)
default_config(a) ==
    [api_key |-> a.key, base_url |-> "https://api.deepseek.com",
     model |-> "deepseek-chat", temperature |-> a.temperature,
     memory |-> FALSE]

Key ==
    /\ At("main", "key")
    /\ IF args.key # ""
       THEN /\ settings' = [exists |-> TRUE, parses |-> TRUE,
                            db |-> default_config(args)]
            /\ cfgWrites' = cfgWrites + 1
            /\ console' = Append(console, "config created")
            /\ stack' = Finalize
            /\ status' = 0
            /\ trigger' = Fire("return")
            /\ UNCHANGED <<latest, archive, start, args, config, messages,
                           saved, registered, exited, shown, message,
                           reasoning_content, content, response, request,
                           turns, chunks, nchunks, preturn, calls, sigs,
                           writes, reads>>
       ELSE /\ stack' = Goto("new")
            /\ UNCHANGED <<settings, latest, archive, start, args, config,
                           messages, saved, registered, status, exited,
                           console, shown, message, reasoning_content,
                           content, response, request, turns, chunks, nchunks,
                           preturn, calls, sigs, writes, reads, cfgWrites,
                           trigger>>

(***************************************************************************)
(* Lines 137-138 and 67-74: -n archives the transcript and clears it.  The *)
(* name of the archive is the date, then the first 32 characters of the    *)
(* first message, or the text of None.  The name is opened relative to     *)
(* the working directory (line 72): a "/" in it names a directory that is  *)
(* not there, and open() raises FileNotFoundError before anything is       *)
(* written or cleared.                                                     *)
(***************************************************************************)
NameLen == 32

first_message(msgs) ==
    IF msgs # << >> THEN Prefix(msgs[1].content, NameLen)
    ELSE <<"N", "o", "n", "e">>

Creatable(name) == \A i \in 1..Len(name) : name[i] # "/"

New ==
    /\ At("main", "new")
    /\ IF args.new
       THEN IF Creatable(first_message(messages))
            THEN /\ archive' = [written |-> TRUE,
                                name |-> first_message(messages),
                                data |-> messages]
                 /\ messages' = << >>
                 /\ stack' = Goto("status")
                 /\ UNCHANGED trigger
            ELSE /\ stack' = Raise
                 /\ trigger' = Fire("error")
                 /\ UNCHANGED <<archive, messages>>
       ELSE /\ stack' = Goto("status")
            /\ UNCHANGED <<archive, messages, trigger>>
    /\ UNCHANGED <<settings, latest, start, args, config, saved, registered,
                   status, exited, console, shown, message, reasoning_content,
                   content, response, request, turns, chunks, nchunks,
                   preturn, calls, sigs, writes, reads, cfgWrites>>

(***************************************************************************)
(* Lines 140-144 and 60-64: -s prints the configuration and returns;       *)
(* otherwise the client is built and the loop begins.                      *)
(***************************************************************************)
Status ==
    /\ At("main", "status")
    /\ IF args.status
       THEN /\ shown' = config
            /\ console' = Append(console, "messages path")
            /\ stack' = Finalize
            /\ status' = 0
            /\ trigger' = Fire("return")
            /\ UNCHANGED <<settings, latest, archive, start, args, config,
                           messages, saved, registered, exited, message,
                           reasoning_content, content, response, request,
                           turns, chunks, nchunks, preturn, calls, sigs,
                           writes, reads, cfgWrites>>
       ELSE /\ stack' = Goto("prompt")
            /\ UNCHANGED <<settings, latest, archive, start, args, config,
                           messages, saved, registered, status, exited,
                           console, shown, message, reasoning_content,
                           content, response, request, turns, chunks, nchunks,
                           preturn, calls, sigs, writes, reads, cfgWrites,
                           trigger>>

(***************************************************************************)
(* Lines 148-150: one line is read; a quit word in any letter case leaves  *)
(* the loop and main returns.  prompt() raises on end of input.            *)
(***************************************************************************)
Prompt ==
    /\ At("main", "prompt")
    /\ \E m \in UserInputs :
         /\ message' = m
         /\ IF Lower(m) \in QuitWords
            THEN /\ stack' = Finalize
                 /\ status' = 0
                 /\ trigger' = Fire("return")
            ELSE /\ turns < MaxTurns
                 /\ stack' = Goto("append")
                 /\ UNCHANGED <<status, trigger>>
    /\ UNCHANGED <<settings, latest, archive, start, args, config, messages,
                   saved, registered, exited, console, shown,
                   reasoning_content, content, response, request, turns,
                   chunks, nchunks, preturn, calls, sigs, writes, reads,
                   cfgWrites>>

PromptFails ==
    /\ At("main", "prompt")
    /\ stack' = Raise
    /\ trigger' = Fire("error")
    /\ UNCHANGED <<settings, latest, archive, start, args, config, messages,
                   saved, registered, status, exited, console, shown, message,
                   reasoning_content, content, response, request, turns,
                   chunks, nchunks, preturn, calls, sigs, writes, reads,
                   cfgWrites>>

(***************************************************************************)
(* Line 151: the user message is appended.                                 *)
(***************************************************************************)
AppendUser_Fresh ==
    /\ At("main", "append")
    /\ preturn' = messages
    /\ messages' = << Msg("user", message) >>
    /\ turns' = turns + 1
    /\ stack' = Goto(IF config["stream"] THEN "create_stream" ELSE "create")
    /\ UNCHANGED <<settings, latest, archive, start, args, config, saved,
                   registered, status, exited, console, shown, message,
                   reasoning_content, content, response, request, chunks,
                   nchunks, calls, sigs, writes, reads, cfgWrites, trigger>>

AppendUser ==
    /\ At("main", "append")
    /\ preturn' = messages
    /\ messages' = Append(messages, Msg("user", message))
    /\ turns' = turns + 1
    /\ stack' = Goto(IF config["stream"] THEN "create_stream" ELSE "create")
    /\ UNCHANGED <<settings, latest, archive, start, args, config, saved,
                   registered, status, exited, console, shown, message,
                   reasoning_content, content, response, request, chunks,
                   nchunks, calls, sigs, writes, reads, cfgWrites, trigger>>

(***************************************************************************)
(* Lines 153-158 and 178-183: the request carries manager.messages.  The   *)
(* streamed request returns a lazy stream, the other the whole answer.     *)
(***************************************************************************)
CreateStream ==
    /\ At("main", "create_stream")
    /\ request' = messages
    /\ stack' = Goto("stream_begin")
    /\ UNCHANGED <<settings, latest, archive, start, args, config, messages,
                   saved, registered, status, exited, console, shown, message,
                   reasoning_content, content, response, turns, chunks,
                   nchunks, preturn, calls, sigs, writes, reads, cfgWrites,
                   trigger>>

Create ==
    /\ At("main", "create")
    /\ request' = messages
    /\ \E c \in Answers : response' = c
    /\ stack' = Goto("append_response")
    /\ UNCHANGED <<settings, latest, archive, start, args, config, messages,
                   saved, registered, status, exited, console, shown, message,
                   reasoning_content, content, turns, chunks, nchunks,
                   preturn, calls, sigs, writes, reads, cfgWrites, trigger>>

RequestFails ==
    /\ At("main", "create_stream") \/ At("main", "create")
    /\ request' = messages
    /\ stack' = Raise
    /\ trigger' = Fire("error")
    /\ UNCHANGED <<settings, latest, archive, start, args, config, messages,
                   saved, registered, status, exited, console, shown, message,
                   reasoning_content, content, response, turns, chunks,
                   nchunks, preturn, calls, sigs, writes, reads, cfgWrites>>

(***************************************************************************)
(* Lines 159-162.                                                          *)
(***************************************************************************)
StreamBegin ==
    /\ At("main", "stream_begin")
    /\ reasoning_content' = EmptyStr
    /\ content' = EmptyStr
    /\ chunks' = << >>
    /\ console' = Append(console, "DeepSeek> ")
    /\ stack' = Goto("chunk")
    /\ UNCHANGED <<settings, latest, archive, start, args, config, messages,
                   saved, registered, status, exited, shown, message,
                   response, request, turns, nchunks, preturn, calls, sigs,
                   writes, reads, cfgWrites, trigger>>

(***************************************************************************)
(* Lines 163-174, one iteration of the loop over the stream.               *)
(***************************************************************************)
Marker == "==========Reasoning finished.=========="

MarkerDue(reasoning, model) ==
    reasoning = EmptyStr /\ model = "deepseek-reasoner"

ChunkStep_Overwrite(chunk) ==
    IF Truthy(chunk.reasoning_content)
    THEN /\ console' =
              (IF reasoning_content = EmptyStr
               THEN Append(console, "Thinking :") ELSE console)
              \o chunk.reasoning_content
         /\ reasoning_content' = reasoning_content \o chunk.reasoning_content
         /\ UNCHANGED content
    ELSE IF Truthy(chunk.content)
    THEN /\ console' =
              (IF MarkerDue(reasoning_content, config["model"])
               THEN console \o <<"\n", Marker>> ELSE console)
              \o chunk.content
         /\ content' = chunk.content
         /\ UNCHANGED reasoning_content
    ELSE UNCHANGED <<console, reasoning_content, content>>

ChunkStep_Both(chunk) ==
    LET shown1 == IF Truthy(chunk.reasoning_content)
                  THEN (IF reasoning_content = EmptyStr
                        THEN Append(console, "Thinking :") ELSE console)
                       \o chunk.reasoning_content
                  ELSE console
        reasoning1 == reasoning_content \o chunk.reasoning_content
    IN  /\ reasoning_content' = reasoning1
        /\ IF Truthy(chunk.content)
           THEN /\ console' =
                     (IF MarkerDue(reasoning1, config["model"])
                      THEN shown1 \o <<"\n", Marker>> ELSE shown1)
                     \o chunk.content
                /\ content' = content \o chunk.content
           ELSE /\ console' = shown1
                /\ UNCHANGED content

ChunkStep(chunk) ==
    IF Truthy(chunk.reasoning_content)
    THEN /\ console' =
              (IF reasoning_content = EmptyStr
               THEN Append(console, "Thinking :") ELSE console)
              \o chunk.reasoning_content
         /\ reasoning_content' = reasoning_content \o chunk.reasoning_content
         /\ UNCHANGED content
    ELSE IF Truthy(chunk.content)
    THEN /\ console' =
              (IF MarkerDue(reasoning_content, config["model"])
               THEN console \o <<"\n", Marker>> ELSE console)
              \o chunk.content
         /\ content' = content \o chunk.content
         /\ UNCHANGED reasoning_content
    ELSE UNCHANGED <<console, reasoning_content, content>>

ReadChunk(kinds, bound) ==
    /\ At("main", "chunk")
    /\ nchunks < bound
    /\ \E chunk \in kinds :
         /\ ChunkStep(chunk)
         /\ chunks' = Append(chunks, chunk)
    /\ nchunks' = nchunks + 1
    /\ UNCHANGED <<settings, latest, archive, start, args, config, messages,
                   saved, registered, stack, status, exited, shown, message,
                   response, request, turns, preturn, calls, sigs, writes,
                   reads, cfgWrites, trigger>>

NextChunk == ReadChunk(LifeChunks, MaxChunks)

StreamEnds ==
    /\ At("main", "chunk")
    /\ stack' = Goto("stream_end")
    /\ UNCHANGED <<settings, latest, archive, start, args, config, messages,
                   saved, registered, status, exited, console, shown, message,
                   reasoning_content, content, response, request, turns,
                   chunks, nchunks, preturn, calls, sigs, writes, reads,
                   cfgWrites, trigger>>

StreamFails ==
    /\ At("main", "chunk")
    /\ stack' = Raise
    /\ trigger' = Fire("error")
    /\ UNCHANGED <<settings, latest, archive, start, args, config, messages,
                   saved, registered, status, exited, console, shown, message,
                   reasoning_content, content, response, request, turns,
                   chunks, nchunks, preturn, calls, sigs, writes, reads,
                   cfgWrites>>

(***************************************************************************)
(* Lines 175-176: the answer text becomes the assistant message.           *)
(***************************************************************************)
StreamEnd ==
    /\ At("main", "stream_end")
    /\ console' = Append(console, "\n")
    /\ messages' = Append(messages, Msg("assistant", content))
    /\ stack' = Goto("prompt")
    /\ UNCHANGED <<settings, latest, archive, start, args, config, saved,
                   registered, status, exited, shown, message,
                   reasoning_content, content, response, request, turns,
                   chunks, nchunks, preturn, calls, sigs, writes, reads,
                   cfgWrites, trigger>>

(***************************************************************************)
(* Lines 184-185, the non-streamed turn.                                   *)
(***************************************************************************)
AppendResponse_AsUser ==
    /\ At("main", "append_response")
    /\ messages' = Append(messages, Msg("user", response))
    /\ stack' = Goto("print_response")
    /\ UNCHANGED <<settings, latest, archive, start, args, config, saved,
                   registered, status, exited, console, shown, message,
                   reasoning_content, content, response, request, turns,
                   chunks, nchunks, preturn, calls, sigs, writes, reads,
                   cfgWrites, trigger>>

AppendResponse ==
    /\ At("main", "append_response")
    /\ messages' = Append(messages, Msg("assistant", response))
    /\ stack' = Goto("print_response")
    /\ UNCHANGED <<settings, latest, archive, start, args, config, saved,
                   registered, status, exited, console, shown, message,
                   reasoning_content, content, response, request, turns,
                   chunks, nchunks, preturn, calls, sigs, writes, reads,
                   cfgWrites, trigger>>

PrintResponse ==
    /\ At("main", "print_response")
    /\ console' = Append(console, "DeepSeek> ") \o response
    /\ stack' = Goto("prompt")
    /\ UNCHANGED <<settings, latest, archive, start, args, config, messages,
                   saved, registered, status, exited, shown, message,
                   reasoning_content, content, response, request, turns,
                   chunks, nchunks, preturn, calls, sigs, writes, reads,
                   cfgWrites, trigger>>

(***************************************************************************)
(* Lines 76-82, ConfigManager.save_data, in the frame that called it: the  *)
(* test of line 78, the open of line 79 (which truncates the file), the    *)
(* dump and the confirmation of lines 80-81, the assignment of line 82.    *)
(***************************************************************************)
MustSave_NoMemory(flag, cfg) == ~flag

MustSave_NoFlag(flag, cfg) == Get(cfg, "memory", TRUE)

MustSave(flag, cfg) == (~flag) /\ Get(cfg, "memory", TRUE)

SaveCheck ==
    /\ Running /\ Top.pc = "sd_check"
    /\ stack' = Goto(IF MustSave(saved, config) THEN "sd_open" ELSE "sd_flag")
    /\ UNCHANGED <<settings, latest, archive, start, args, config, messages,
                   saved, registered, status, exited, console, shown, message,
                   reasoning_content, content, response, request, turns,
                   chunks, nchunks, preturn, calls, sigs, writes, reads,
                   cfgWrites, trigger>>

SaveOpen ==
    /\ Running /\ Top.pc = "sd_open"
    /\ latest' = Truncated
    /\ writes' = writes + 1
    /\ stack' = Goto("sd_dump")
    /\ UNCHANGED <<settings, archive, start, args, config, messages, saved,
                   registered, status, exited, console, shown, message,
                   reasoning_content, content, response, request, turns,
                   chunks, nchunks, preturn, calls, sigs, reads, cfgWrites,
                   trigger>>

SaveDump ==
    /\ Running /\ Top.pc = "sd_dump"
    /\ latest' = JsonDump(messages)
    /\ console' = Append(console, "saved")
    /\ stack' = Goto("sd_flag")
    /\ UNCHANGED <<settings, archive, start, args, config, messages, saved,
                   registered, status, exited, shown, message,
                   reasoning_content, content, response, request, turns,
                   chunks, nchunks, preturn, calls, sigs, writes, reads,
                   cfgWrites, trigger>>

SaveFlag ==
    /\ Running /\ Top.pc = "sd_flag"
    /\ saved' = TRUE
    /\ stack' = Goto("after")
    /\ UNCHANGED <<settings, latest, archive, start, args, config, messages,
                   registered, status, exited, console, shown, message,
                   reasoning_content, content, response, request, turns,
                   chunks, nchunks, preturn, calls, sigs, writes, reads,
                   cfgWrites, trigger>>

(***************************************************************************)
(* Lines 86-88, handle_exit.  A signal that arrives once the handlers are  *)
(* installed starts the handler on top of whatever is running; before      *)
(* that it ends the process.  sys.exit(0) raises SystemExit through every  *)
(* frame below: out of main or of the hook it ends the program with        *)
(* status 0 and the atexit callback runs; inside the atexit callback it is *)
(* reported and swallowed, and the status stays what it was.               *)
(***************************************************************************)
Signal ==
    /\ Running
    /\ registered
    /\ sigs < MaxSignals
    /\ \E signum \in Signals :
         stack' = Append(stack, Frame("handler", "sd_check"))
    /\ sigs' = sigs + 1
    /\ trigger' = Fire("signal")
    /\ UNCHANGED <<settings, latest, archive, start, args, config, messages,
                   saved, registered, status, exited, console, shown, message,
                   reasoning_content, content, response, request, turns,
                   chunks, nchunks, preturn, calls, writes, reads, cfgWrites>>

EarlySignal ==
    /\ Running
    /\ ~registered
    /\ \E signum \in Signals : status' = 128 + signum
    /\ stack' = << >>
    /\ exited' = TRUE
    /\ trigger' = Fire("signal")
    /\ UNCHANGED <<settings, latest, archive, start, args, config, messages,
                   saved, registered, console, shown, message,
                   reasoning_content, content, response, request, turns,
                   chunks, nchunks, preturn, calls, sigs, writes, reads,
                   cfgWrites>>

HandlerExit_Status1 ==
    /\ At("handler", "after")
    /\ IF Bottom.fn = "atexit"
       THEN /\ stack' = << >>
            /\ exited' = TRUE
            /\ UNCHANGED status
       ELSE /\ stack' = Finalize
            /\ status' = 1
            /\ UNCHANGED exited
    /\ UNCHANGED <<settings, latest, archive, start, args, config, messages,
                   saved, registered, console, shown, message,
                   reasoning_content, content, response, request, turns,
                   chunks, nchunks, preturn, calls, sigs, writes, reads,
                   cfgWrites, trigger>>

HandlerExit ==
    /\ At("handler", "after")
    /\ IF Bottom.fn = "atexit"
       THEN /\ stack' = << >>
            /\ exited' = TRUE
            /\ UNCHANGED status
       ELSE /\ stack' = Finalize
            /\ status' = 0
            /\ UNCHANGED exited
    /\ UNCHANGED <<settings, latest, archive, start, args, config, messages,
                   saved, registered, console, shown, message,
                   reasoning_content, content, response, request, turns,
                   chunks, nchunks, preturn, calls, sigs, writes, reads,
                   cfgWrites, trigger>>

(***************************************************************************)
(* Lines 90-93, exception_hook, after its call of save_data.               *)
(***************************************************************************)
HookReport ==
    /\ At("hook", "after")
    /\ console' = Append(console, "Traceback")
    /\ stack' = Goto("exit")
    /\ UNCHANGED <<settings, latest, archive, start, args, config, messages,
                   saved, registered, status, exited, shown, message,
                   reasoning_content, content, response, request, turns,
                   chunks, nchunks, preturn, calls, sigs, writes, reads,
                   cfgWrites, trigger>>

HookExit ==
    /\ At("hook", "exit")
    /\ stack' = Finalize
    /\ status' = 1
    /\ UNCHANGED <<settings, latest, archive, start, args, config, messages,
                   saved, registered, exited, console, shown, message,
                   reasoning_content, content, response, request, turns,
                   chunks, nchunks, preturn, calls, sigs, writes, reads,
                   cfgWrites, trigger>>

(***************************************************************************)
(* The atexit callback returns and the process ends.                       *)
(***************************************************************************)
AtexitReturn ==
    /\ At("atexit", "after")
    /\ stack' = << >>
    /\ exited' = TRUE
    /\ UNCHANGED <<settings, latest, archive, start, args, config, messages,
                   saved, registered, status, console, shown, message,
                   reasoning_content, content, response, request, turns,
                   chunks, nchunks, preturn, calls, sigs, writes, reads,
                   cfgWrites, trigger>>

SaveData == SaveCheck \/ SaveOpen \/ SaveDump \/ SaveFlag

Startup == Construct \/ Register \/ Parse \/ Load \/ Key \/ New \/ Status

Turn ==
    \/ Prompt \/ PromptFails \/ AppendUser
    \/ CreateStream \/ Create \/ RequestFails
    \/ StreamBegin \/ NextChunk \/ StreamEnds \/ StreamFails \/ StreamEnd
    \/ AppendResponse \/ PrintResponse

Exits ==
    \/ Signal \/ EarlySignal \/ HandlerExit
    \/ HookReport \/ HookExit \/ AtexitReturn

Next == Startup \/ Turn \/ SaveData \/ Exits

Spec == Init /\ [][Next]_vars

(***************************************************************************)
(* save_data called directly, one call after the other, with messages      *)
(* appended between the calls: the method on its own, as ConfigManager     *)
(* offers it.                                                              *)
(***************************************************************************)
InitSave ==
    /\ \E mem \in BOOLEAN :
         /\ settings = [exists |-> TRUE, parses |-> TRUE, db |-> Database(mem)]
         /\ config = Put(Database(mem), "stream", TRUE)
         /\ args = Flags(FALSE, "", FALSE, FALSE, mem, FALSE,
                         DefaultTemperature, FALSE)
    /\ latest \in {JsonDump(<< >>), JsonDump(Stored)}
    /\ messages \in {<< >>, Stored}
    /\ archive = [written |-> FALSE, name |-> EmptyStr, data |-> << >>]
    /\ start = [settings |-> settings, latest |-> latest]
    /\ saved = FALSE
    /\ registered = FALSE
    /\ stack = << >>
    /\ status = -1
    /\ exited = FALSE
    /\ console = << >>
    /\ shown = NoDb
    /\ message = EmptyStr
    /\ reasoning_content = EmptyStr
    /\ content = EmptyStr
    /\ response = EmptyStr
    /\ request = << >>
    /\ turns = 0
    /\ chunks = << >>
    /\ nchunks = 0
    /\ preturn = << >>
    /\ calls = 0
    /\ sigs = 0
    /\ writes = 0
    /\ reads = 0
    /\ cfgWrites = 0
    /\ trigger = NoTrigger

Call ==
    /\ stack = << >>
    /\ calls < MaxCalls
    /\ stack' = << Frame("call", "sd_check") >>
    /\ calls' = calls + 1
    /\ UNCHANGED <<settings, latest, archive, start, args, config, messages,
                   saved, registered, status, exited, console, shown, message,
                   reasoning_content, content, response, request, turns,
                   chunks, nchunks, preturn, sigs, writes, reads, cfgWrites,
                   trigger>>

Return ==
    /\ At("call", "after")
    /\ stack' = << >>
    /\ UNCHANGED <<settings, latest, archive, start, args, config, messages,
                   saved, registered, status, exited, console, shown, message,
                   reasoning_content, content, response, request, turns,
                   chunks, nchunks, preturn, calls, sigs, writes, reads,
                   cfgWrites, trigger>>

AppendAny ==
    /\ stack = << >>
    /\ Len(messages) < MaxMessages
    /\ \E m \in {Msg("user", <<"h", "i">>), Msg("assistant", <<"a">>)} :
         messages' = Append(messages, m)
    /\ UNCHANGED <<settings, latest, archive, start, args, config, saved,
                   registered, stack, status, exited, console, shown, message,
                   reasoning_content, content, response, request, turns,
                   chunks, nchunks, preturn, calls, sigs, writes, reads,
                   cfgWrites, trigger>>

NextSave ==
    \/ Call \/ Return \/ AppendAny
    \/ SaveCheck \/ SaveOpen \/ SaveDump \/ SaveFlag

SpecSave == InitSave /\ [][NextSave]_vars

(***************************************************************************)
(* The streamed turn on its own, from the first prompt of a run that got   *)
(* there, with every kind of chunk the service may deliver.                *)
(***************************************************************************)
InitStream ==
    /\ \E mem \in BOOLEAN :
         settings = [exists |-> TRUE, parses |-> TRUE, db |-> Database(mem)]
    /\ \E r \in BOOLEAN, m \in BOOLEAN :
         args = Flags(FALSE, "", FALSE, r, m, FALSE, DefaultTemperature, FALSE)
    /\ latest \in {JsonDump(<< >>), JsonDump(Stored)}
    /\ config = ApplyFlags(Put(settings.db, "stream", TRUE), args)
    /\ messages = IF args.memory THEN JsonLoad(latest) ELSE << >>
    /\ reads = IF args.memory THEN 1 ELSE 0
    /\ archive = [written |-> FALSE, name |-> EmptyStr, data |-> << >>]
    /\ start = [settings |-> settings, latest |-> latest]
    /\ saved = FALSE
    /\ registered = TRUE
    /\ stack = << Frame("main", "prompt") >>
    /\ status = -1
    /\ exited = FALSE
    /\ console = << >>
    /\ shown = NoDb
    /\ message = EmptyStr
    /\ reasoning_content = EmptyStr
    /\ content = EmptyStr
    /\ response = EmptyStr
    /\ request = << >>
    /\ turns = 0
    /\ chunks = << >>
    /\ nchunks = 0
    /\ preturn = << >>
    /\ calls = 0
    /\ sigs = 0
    /\ writes = 0
    /\ cfgWrites = 0
    /\ trigger = NoTrigger

StreamChunk == ReadChunk(Chunks, MaxStream)

NextStream ==
    \/ Prompt \/ AppendUser \/ CreateStream \/ StreamBegin
    \/ StreamChunk \/ StreamEnds \/ StreamEnd

SpecStream == InitStream /\ [][NextStream]_vars

(***************************************************************************)
(* Vocabulary of the properties.                                           *)
(***************************************************************************)
MemoryOn == Get(config, "memory", TRUE)

Last(s) == s[Len(s)]

RECURSIVE AnswerText(_)
AnswerText(cs) ==
    IF cs = << >> THEN EmptyStr ELSE cs[1].content \o AnswerText(Tail(cs))

RECURSIVE ReasoningText(_)
ReasoningText(cs) ==
    IF cs = << >> THEN EmptyStr
    ELSE cs[1].reasoning_content \o ReasoningText(Tail(cs))

RECURSIVE AnswerOfPlainChunks(_)
AnswerOfPlainChunks(cs) ==
    IF cs = << >> THEN EmptyStr
    ELSE (IF Truthy(cs[1].reasoning_content) THEN EmptyStr ELSE cs[1].content)
         \o AnswerOfPlainChunks(Tail(cs))

Count(s, x) == Cardinality({i \in 1..Len(s) : s[i] = x})

Index(s, x) ==
    CHOOSE i \in 1..Len(s) : s[i] = x /\ \A j \in 1..(i - 1) : s[j] # x

(* What was printed since the last "DeepSeek> ", line ends left out. *)
TurnOut ==
    LET heads == {i \in 1..Len(console) : console[i] = "DeepSeek> "}
        from == IF heads = {} THEN 0
                ELSE CHOOSE i \in heads : \A j \in heads : j <= i
        IsText(x) == x # "\n"
    IN  SelectSeq(SubSeq(console, from + 1, Len(console)), IsText)

ReasoningOnly(c) == Truthy(c.reasoning_content) /\ ~Truthy(c.content)

AnswerOnly(c) == Truthy(c.content) /\ ~Truthy(c.reasoning_content)

ReasoningThenAnswer(cs) ==
    \E k \in 1..(Len(cs) - 1) :
        /\ \A i \in 1..k : ReasoningOnly(cs[i])
        /\ \A i \in (k + 1)..Len(cs) : AnswerOnly(cs[i])

Reasoner == config["model"] = "deepseek-reasoner"

(* main is back at the prompt after a streamed turn. *)
StreamedTurnDone ==
    /\ stack = << Frame("main", "prompt") >>
    /\ turns > 0
    /\ config["stream"]

(* Where main is between the append of line 151 and that of line 176/184. *)
MidTurn ==
    {"create_stream", "create", "stream_begin", "chunk", "stream_end",
     "append_response"}

(* Where main is once the transcript has been loaded. *)
AfterLoad ==
    MidTurn \cup {"key", "new", "status", "prompt", "append", "print_response"}

(***************************************************************************)
(* C1.  With memory enabled, N >= 1 calls of save_data made one after the  *)
(* other, with messages appended between them, write latest.json exactly   *)
(* once: the file is opened and written during the first call only, what   *)
(* is written is the transcript of that moment, and once the first call    *)
(* has returned the count of writes stays 1.                               *)
(***************************************************************************)
C1_SaveOnce ==
    /\ [](MemoryOn => /\ writes <= 1
                      /\ saved => (writes = 1 /\ latest.valid))
    /\ [][MemoryOn =>
            /\ writes' # writes => calls = 1
            /\ latest' # latest => calls = 1
            /\ (latest' # latest /\ latest'.valid)
                  => latest' = JsonDump(messages)
            /\ stack # << >> => messages' = messages]_vars

C1_Witness ==
    /\ MemoryOn
    /\ calls >= 2
    /\ stack = << >>
    /\ saved
    /\ writes = 1
    /\ latest # JsonDump(messages)

(***************************************************************************)
(* C2.  With memory enabled and the transcript loaded, however the process *)
(* ends (quit, SIGINT, SIGTERM, uncaught error), latest.json has been      *)
(* written exactly once when the process has terminated, and it holds the  *)
(* in-memory transcript (which no step changes once the exit is under      *)
(* way).                                                                   *)
(***************************************************************************)
C2_SavedOnceOnEveryExit ==
    (exited /\ MemoryOn /\ trigger.pc \in AfterLoad)
        => (writes = 1 /\ latest = JsonDump(messages))

(***************************************************************************)
(* C3.  Overlapping exit triggers collapse to one physical write: under    *)
(* every interleaving of the atexit callback, the signal handler and the   *)
(* hook, latest.json is opened for writing at most once.                   *)
(***************************************************************************)
C3_AtMostOneWrite == writes <= 1

(***************************************************************************)
(* C4.  When settings.py has memory=True and the program is run without    *)
(* -m, the transcript is read from latest.json at startup and, after the   *)
(* user has quit, latest.json equals the in-memory transcript.             *)
(***************************************************************************)
C4_ConfiguredMemoryIsUsed ==
    (/\ exited
     /\ trigger = [kind |-> "return", pc |-> "prompt"]
     /\ sigs = 0
     /\ "memory" \in DOMAIN start.settings.db
     /\ start.settings.db["memory"]
     /\ ~args.memory
     /\ start.latest.valid)
        => (reads = 1 /\ latest = JsonDump(messages))

(***************************************************************************)
(* C5.  In streamed mode with model deepseek-reasoner, after a stream of   *)
(* one or more reasoning chunks followed by one or more answer chunks, the *)
(* console shows, in order, "Thinking :", the reasoning text, the          *)
(* reasoning-finished marker and the answer text, and the assistant        *)
(* message holds exactly the answer text.                                  *)
(***************************************************************************)
C5_ReasoningThenMarkerThenAnswer ==
    (StreamedTurnDone /\ Reasoner /\ ReasoningThenAnswer(chunks))
        => /\ TurnOut = <<"Thinking :">> \o ReasoningText(chunks)
                          \o <<Marker>> \o AnswerText(chunks)
           /\ Last(messages) = Msg("assistant", AnswerText(chunks))

(***************************************************************************)
(* C6.  In streamed mode with the reasoning model, the reasoning-finished  *)
(* marker is printed exactly once in a turn in which an answer fragment    *)
(* arrives while no reasoning text has been seen, however many answer      *)
(* chunks follow.                                                          *)
(***************************************************************************)
MarkerExpected(cs) ==
    \E i \in 1..Len(cs) :
        /\ Truthy(cs[i].content)
        /\ \A j \in 1..i : ~Truthy(cs[j].reasoning_content)

C6_MarkerOnce ==
    (/\ Running
     /\ Top \in {Frame("main", "chunk"), Frame("main", "stream_end")}
     /\ Reasoner
     /\ MarkerExpected(chunks))
        => Count(TurnOut, Marker) = 1

(***************************************************************************)
(* C7.  As claimed: for every sequence of chunks, each carrying a          *)
(* reasoning fragment and/or an answer fragment or neither, the assistant  *)
(* message appended at the end of the stream is the concatenation, in      *)
(* order, of the answer fragments of all chunks.                           *)
(***************************************************************************)
ReasoningChars == {"r"}

C7_AllAnswerFragments ==
    StreamedTurnDone
        => /\ Last(messages) = Msg("assistant", AnswerText(chunks))
           /\ \A i \in 1..Len(Last(messages).content) :
                  Last(messages).content[i] \notin ReasoningChars

(***************************************************************************)
(* C7, amended.  The assistant message appended at the end of the stream   *)
(* is the concatenation, in order, of the answer fragments of the chunks   *)
(* that carry no reasoning fragment (the answer fragment of a chunk that   *)
(* also carries a reasoning fragment is dropped), and it contains no       *)
(* reasoning text.                                                         *)
(***************************************************************************)
C7_AnswerFragmentsOfPlainChunks ==
    StreamedTurnDone
        => /\ Last(messages) = Msg("assistant", AnswerOfPlainChunks(chunks))
           /\ \A i \in 1..Len(Last(messages).content) :
                  Last(messages).content[i] \notin ReasoningChars

C7_Witness ==
    /\ StreamedTurnDone
    /\ \E i \in 1..Len(chunks) :
         Truthy(chunks[i].reasoning_content) /\ Truthy(chunks[i].content)
    /\ Last(messages) = Msg("assistant", <<"a", "b">>)

(***************************************************************************)
(* C8.  Run with -k VALUE (and the default -t) when settings.py does not   *)
(* exist, the program writes a settings.py with api_key=VALUE,             *)
(* memory=False, temperature=0.7 and exits, without a prompt, a request or *)
(* a read of latest.json.                                                  *)
(***************************************************************************)
C8_KeyCreatesSettings ==
    (/\ exited
     /\ trigger.kind # "signal"
     /\ args.key # ""
     /\ args.temperature = DefaultTemperature
     /\ ~start.settings.exists)
        => /\ settings = [exists |-> TRUE, parses |-> TRUE,
                          db |-> [api_key |-> args.key,
                                  base_url |-> "https://api.deepseek.com",
                                  model |-> "deepseek-chat",
                                  temperature |-> DefaultTemperature,
                                  memory |-> FALSE]]
           /\ reads = 0
           /\ turns = 0
           /\ request = << >>

(***************************************************************************)
(* C9.  With memory enabled, when the first thing to end main is a signal  *)
(* that arrives after the user message was appended and before the         *)
(* assistant message is, the process ends with status 0 and latest.json    *)
(* holds the transcript of before the turn followed by that user message   *)
(* and nothing after it.                                                   *)
(***************************************************************************)
C9_InterruptMidTurn ==
    (exited /\ MemoryOn /\ trigger.kind = "signal" /\ trigger.pc \in MidTurn)
        => /\ latest = JsonDump(Append(preturn, Msg("user", message)))
           /\ status = 0

C9_Witness ==
    /\ exited
    /\ MemoryOn
    /\ trigger = [kind |-> "signal", pc |-> "chunk"]
    /\ content # EmptyStr
    /\ preturn = Stored
    /\ latest = JsonDump(Append(Stored, Msg("user", <<"h", "i">>)))
    /\ status = 0

(***************************************************************************)
(* C10.  When the request or the read of the stream fails, no further      *)
(* prompt is issued, the hook saves once, then reports the error, and the  *)
(* process ends with status 1; with memory enabled latest.json ends with   *)
(* the user message of the turn and holds no reply to it.                  *)
(***************************************************************************)
C10_FailureSavesReportsExits1 ==
    (/\ exited
     /\ trigger.kind = "error"
     /\ trigger.pc \in {"create_stream", "create", "chunk"})
        => /\ status = 1
           /\ messages = Append(preturn, Msg("user", message))
           /\ Count(console, "Traceback") = 1
           /\ MemoryOn =>
                /\ writes = 1
                /\ latest = JsonDump(messages)
                /\ Index(console, "saved") < Index(console, "Traceback")

(***************************************************************************)
(* The transcript main holds once lines 119-121 have run: what latest.json *)
(* held at the start when memory is on, nothing otherwise.                 *)
(***************************************************************************)
Loaded ==
    IF args.memory /\ start.latest.exists /\ start.latest.valid
    THEN start.latest.data ELSE << >>

(***************************************************************************)
(* C11: with -n, save_messages does not fail; once it has returned the     *)
(* archive holds exactly the transcript it was called with, under the name *)
(* made of its first message (of None for an empty transcript), and the    *)
(* transcript in memory is empty.                                          *)
(***************************************************************************)
C11_ArchiveThenClear ==
    /\ (args.new /\ At("main", "status")) =>
          /\ archive.written
          /\ archive.data = Loaded
          /\ archive.name = IF Loaded = << >> THEN <<"N", "o", "n", "e">>
                            ELSE Prefix(Loaded[1].content, NameLen)
          /\ messages = << >>
    /\ ~(args.new /\ trigger.kind = "error" /\ trigger.pc = "new")

(***************************************************************************)
(* C11, for the names that can be created: the archive is exact and the    *)
(* transcript is cleared.                                                  *)
(***************************************************************************)
C11_ArchiveOfCreatableName ==
    (args.new /\ At("main", "status")) =>
        /\ archive.written
        /\ archive.data = Loaded
        /\ messages = << >>

(***************************************************************************)
(* C12: -s with no overriding flag shows every key of the record stored in *)
(* settings.py with its stored value, and stream = TRUE.                   *)
(***************************************************************************)
C12_StatusShowsStoredRecord ==
    (/\ shown # NoDb
     /\ ~args.beta /\ ~args.reasoner /\ ~args.memory /\ ~args.no_stream)
    => shown = Put(start.settings.db, "stream", TRUE)

(***************************************************************************)
(* C13: when settings.py is absent, cannot be parsed or lacks a required   *)
(* key, the process never gets past the construction of the manager: it    *)
(* ends with a status other than 0, no input is read, no request is made   *)
(* and neither settings.py nor latest.json is written.                     *)
(***************************************************************************)
ValidSettings(f) ==
    /\ f.exists
    /\ f.parses
    /\ \A k \in {"api_key", "base_url", "model", "temperature", "memory"} :
          k \in DOMAIN f.db

C13_InvalidSettingsExit ==
    ~ValidSettings(start.settings) =>
        /\ stack \in { << Frame("main", "construct") >>, << >> }
        /\ exited => status # 0
        /\ ~registered
        /\ message = EmptyStr /\ turns = 0 /\ request = << >>
        /\ writes = 0 /\ cfgWrites = 0
        /\ settings = start.settings /\ latest = start.latest
        /\ messages = << >> /\ ~archive.written

C13_Witness ==
    /\ exited /\ status = 1 /\ trigger.kind = "config"
    /\ start.settings.exists /\ start.settings.parses
    /\ DOMAIN start.settings.db =
          {"api_key", "base_url", "temperature", "memory"}
    /\ args.key # ""

(***************************************************************************)
(* The inputs that are a quit word up to letter case, told letter by       *)
(* letter.                                                                 *)
(***************************************************************************)
UpperOf(c) ==
    CASE c = "q" -> "Q"
      [] c = "u" -> "U"
      [] c = "i" -> "I"
      [] c = "t" -> "T"
      [] c = "e" -> "E"
      [] c = "x" -> "X"

IsQuit(m) ==
    \E w \in { <<"e", "x", "i", "t">>, <<"q", "u", "i", "t">>, <<"q">> } :
        /\ Len(m) = Len(w)
        /\ \A i \in 1..Len(w) : m[i] = w[i] \/ m[i] = UpperOf(w[i])

(***************************************************************************)
(* C14: a line that is exit, quit or q in any letter case makes main       *)
(* return (status 0, the atexit path) with the transcript and the last     *)
(* request untouched; any other line is appended as a user message before  *)
(* the request is made, and the request made carries the whole transcript, *)
(* which ends with that user message.                                      *)
(***************************************************************************)
C14_ReadStep ==
    (At("main", "prompt") /\ stack' \in {Finalize, Goto("append")}) =>
        IF IsQuit(message')
        THEN /\ stack' = Finalize
             /\ status' = 0
             /\ messages' = messages /\ request' = request
             /\ turns' = turns
        ELSE /\ stack' = Goto("append")
             /\ messages' = messages /\ request' = request

C14_AppendStep ==
    (At("main", "append") /\ Len(stack') = 1 /\ stack' # stack) =>
        /\ ~IsQuit(message)
        /\ messages' = Append(messages, Msg("user", message))
        /\ request' = request

C14_RequestStep ==
    ((At("main", "create_stream") \/ At("main", "create"))
     /\ Len(stack') = 1 /\ stack' # stack) =>
        /\ messages = Append(preturn, Msg("user", message))
        /\ request' = messages
        /\ messages' = messages

C14_QuitOrSend ==
    [][C14_ReadStep /\ C14_AppendStep /\ C14_RequestStep]_vars

C14_Witness ==
    /\ exited /\ status = 0 /\ turns = 1
    /\ trigger = [kind |-> "return", pc |-> "prompt"]
    /\ message = <<"e", "X", "i", "T">>
    /\ request = Append(Stored, Msg("user", <<"h", "i">>))
    /\ Len(messages) = 4

(***************************************************************************)
(* The transcript the loop starts from: what was loaded, or nothing after  *)
(* the reset of -n.  LoopPcs is where main is inside the loop.             *)
(***************************************************************************)
Base == IF args.new THEN << >> ELSE Loaded

LoopPcs == MidTurn \cup {"prompt", "append", "print_response"}

(***************************************************************************)
(* C15: inside the loop the transcript only grows by appends.  It is the   *)
(* transcript the loop started from followed by one user and one assistant *)
(* message per finished turn (and the user message of the turn under way); *)
(* the transcript changes only at line 151, which appends the user         *)
(* message, and at lines 176/184, which append the assistant message       *)
(* directly after it once the whole response is in.                        *)
(***************************************************************************)
C15_Shape ==
    (Running /\ Bottom.fn = "main" /\ Bottom.pc \in LoopPcs) =>
        /\ Len(messages) = Len(Base) + 2 * turns
                           - (IF Bottom.pc \in MidTurn THEN 1 ELSE 0)
        /\ SubSeq(messages, 1, Len(Base)) = Base
        /\ \A i \in 1..(Len(messages) - Len(Base)) :
              messages[Len(Base) + i].role =
                  IF i % 2 = 1 THEN "user" ELSE "assistant"

C15_TurnStep ==
    (messages' # messages /\ ~At("main", "load") /\ ~At("main", "new")) =>
        \/ /\ At("main", "append")
           /\ messages' = Append(messages, Msg("user", message))
        \/ /\ At("main", "stream_end")
           /\ messages = Append(preturn, Msg("user", message))
           /\ messages' = Append(messages, Msg("assistant", content))
        \/ /\ At("main", "append_response")
           /\ messages = Append(preturn, Msg("user", message))
           /\ messages' = Append(messages, Msg("assistant", response))

C15_AppendOnly == [](C15_Shape) /\ [][C15_TurnStep]_vars

C15_Witness ==
    /\ At("main", "prompt") /\ turns = 1 /\ ~args.new
    /\ Len(messages) = 4
    /\ SubSeq(messages, 1, 2) = Stored
    /\ messages[3] = Msg("user", <<"h", "i">>)
    /\ messages[4].role = "assistant"

(***************************************************************************)
(* Roles that alternate from "user"; a transcript made of whole turns      *)
(* also ends with an assistant message.                                    *)
(***************************************************************************)
Alternates(ms) ==
    \A i \in 1..Len(ms) :
        ms[i].role = IF i % 2 = 1 THEN "user" ELSE "assistant"

WholeTurns(ms) == Alternates(ms) /\ Len(ms) % 2 = 0

Waiting == Running /\ Bottom = Frame("main", "prompt")

(***************************************************************************)
(* C16: whenever the loop waits for input, the roles of the transcript     *)
(* alternate from "user", whatever latest.json of an earlier run was       *)
(* loaded.                                                                 *)
(***************************************************************************)
C16_RolesAlternate == Waiting => Alternates(messages)

(***************************************************************************)
(* C16, amended: whenever the loop waits for input, the roles alternate    *)
(* from "user" and the transcript ends with an assistant message, in a run *)
(* whose transcript at the start of the loop is empty or made of whole     *)
(* turns.                                                                  *)
(***************************************************************************)
C16_RolesAlternateFromWholeTurns ==
    (Waiting /\ WholeTurns(Base)) => WholeTurns(messages)

C16_Witness ==
    /\ Waiting /\ turns = 1 /\ ~config["stream"]
    /\ Base = Stored
    /\ Len(messages) = 4 /\ Alternates(messages)

(***************************************************************************)
(* C17: a finished turn leaves the transcript it found followed by the     *)
(* user message and one assistant message.  Its content is the response    *)
(* of the non-streamed request, and for a stream whose chunks carry answer *)
(* fragments only it is their concatenation: the same transcript for the   *)
(* same answer.                                                            *)
(***************************************************************************)
AnswersOnly(cs) == \A i \in 1..Len(cs) : cs[i].reasoning_content = EmptyStr

TurnOf(prior, input, answer) ==
    prior \o << Msg("user", input), Msg("assistant", answer) >>

C17_SameTranscript ==
    (stack = << Frame("main", "prompt") >> /\ turns > 0) =>
        IF config["stream"]
        THEN AnswersOnly(chunks) =>
                 messages = TurnOf(preturn, message, AnswerText(chunks))
        ELSE messages = TurnOf(preturn, message, response)

C17_Witness ==
    /\ stack = << Frame("main", "prompt") >> /\ turns = 1
    /\ config["stream"]
    /\ chunks = << Chunk(EmptyStr, <<"a">>), Chunk(EmptyStr, <<"a">>) >>
    /\ messages = TurnOf(Stored, <<"h", "i">>, <<"a", "a">>)

(***************************************************************************)
(* C18: with memory on and a latest.json that exists but does not hold     *)
(* JSON, the load of lines 119-121 raises; the process ends with status 1, *)
(* no input has been read, no request made, and latest.json is left as it  *)
(* was (it is not overwritten with an empty transcript).                   *)
(***************************************************************************)
CorruptAtLoad ==
    /\ start.latest.exists /\ ~start.latest.valid
    /\ trigger = [kind |-> "error", pc |-> "load"]

C18_CorruptLatestIsKept ==
    CorruptAtLoad =>
        /\ message = EmptyStr /\ turns = 0 /\ request = << >>
        /\ exited => status = 1
        /\ latest = start.latest

(***************************************************************************)
(* C19: when settings.py has memory False and -m is not given, latest.json *)
(* is never opened, for reading or for writing, however the process ends   *)
(* and however many times save_data runs.                                  *)
(***************************************************************************)
MemoryOff ==
    /\ ValidSettings(start.settings)
    /\ ~start.settings.db["memory"]
    /\ ~args.memory

C19_MemoryOffTouchesNothing ==
    MemoryOff => (reads = 0 /\ writes = 0 /\ latest = start.latest)

C19_Witness ==
    /\ MemoryOff /\ exited /\ saved
    /\ turns = 1 /\ sigs = 1
    /\ start.latest = JsonDump(Stored)
    /\ latest = start.latest /\ writes = 0

(***************************************************************************)
(* C20: in a run without -n, once the handlers are installed, whatever     *)
(* save_data has written to latest.json begins with the messages the file  *)
(* held when the process started.                                          *)
(***************************************************************************)
IsPrefix(s, t) == Len(s) <= Len(t) /\ SubSeq(t, 1, Len(s)) = s

C20_StoredConversationKept ==
    (/\ ~args.new /\ registered
     /\ start.latest.exists /\ start.latest.valid
     /\ writes > 0 /\ latest.valid)
    => IsPrefix(start.latest.data, latest.data)

====
